---------------------------- MODULE Spec2Model ----------------------------
(***************************************************************************)
(* SQLQueryBuilder (src/SQLQueryBuilder/SQLQueryBuilder.cpp): a fluent     *)
(* builder that accumulates the clauses of a SELECT statement and renders  *)
(* them as text for two dialects, Oracle and MariaDB.                      *)
(*                                                                         *)
(* std::string is a TLA+ string: \o is concatenation, Len its length and   *)
(* SubSeq a substring (positions from 1).  A TLA+ string literal cannot    *)
(* hold the back-tick character, so the back-tick that MariaDB quotes      *)
(* identifiers with is written BackTick below; no input of the model       *)
(* contains that stand-in.                                                 *)
(***************************************************************************)
EXTENDS Integers, Sequences, FiniteSets

VARIABLES
    dbType,          \* DatabaseType, fixed by the constructor
    selectFields,    \* std::vector<std::string>
    tableName,       \* std::string
    whereConditions, \* std::vector<std::string>
    joins,           \* std::vector<std::string>
    orderBy,         \* std::string
    indexClause,     \* std::string
    is_distinct,     \* bool
    limit,           \* int
    offset,          \* int
    values,          \* std::unordered_map<std::string, std::string>: the mapping
    valuesOrder,     \* ... and the order in which a range-for traverses it
    out,             \* the string the latest call returned, when it was Build
    buildsInRow,     \* Build calls since the latest mutating call (saturates at 2)
    calls,           \* number of mutating calls made so far
    selectArgs,      \* history: every field passed to Select, in call order
    whereArgs,       \* history: every pair passed to Where / WhereWithPlaceholder
    lastArgs,        \* history: per overwriting call (From, OrderBy, Index, Limit,
                     \* Offset), <<>> if never made, else its latest arguments
    distinctCalls    \* history: number of Distinct calls (saturates at 2)

fields == <<dbType, selectFields, tableName, whereConditions, joins, orderBy,
            indexClause, is_distinct, limit, offset, values, valuesOrder>>
history == <<calls, selectArgs, whereArgs, lastArgs, distinctCalls>>
vars == <<fields, out, buildsInRow, history>>

-----------------------------------------------------------------------------
(* Bounds of the exploration. *)

\* Mutating calls in one chain.
MaxCalls == 3

-----------------------------------------------------------------------------
(* Program constants. *)

\* int limit = -1;
DefaultLimit == -1
\* int offset = -1;
DefaultOffset == -1
\* std::string::npos, as find reports "not found"
npos == -1

\* Stand-in for the back-tick character of "`" + field + "`".
BackTick == "~"
DoubleQuote == "\""

DatabaseType == {"Oracle", "MariaDB"}

\* reservedKeywords = { "DATE", "USER", "ORDER", "GROUP", "INDEX" };
reservedKeywords == {"DATE", "USER", "ORDER", "GROUP", "INDEX"}

-----------------------------------------------------------------------------
(* Helpers. *)

Min(S) == CHOOSE m \in S : \A n \in S : m <= n

\* The sequences that hold every element of the finite set S exactly once.
TraversalOrders(S) ==
    {p \in [1..Cardinality(S) -> S] : \A a \in S : \E i \in DOMAIN p : p[i] = a}

Digit(d) == SubSeq("0123456789", d + 1, d + 1)

RECURSIVE NatToString(_)
NatToString(n) ==
    IF n < 10 THEN Digit(n) ELSE NatToString(n \div 10) \o Digit(n % 10)

\* operator<<(std::ostream&, int): decimal digits, '-' before a negative
\* number.  The digits of -n are taken from n itself, since -n is no int for
\* the least int: with n = 10 * q + r and 0 <= r < 10, -n is 10 * (-q) when
\* r = 0 and 10 * (-q - 1) + (10 - r) otherwise.
IntToString(n) ==
    IF n >= 0 THEN NatToString(n)
    ELSE IF n > -10 THEN "-" \o Digit(-n)
    ELSE IF n % 10 = 0 THEN "-" \o NatToString(-(n \div 10)) \o "0"
    ELSE "-" \o NatToString(-(n \div 10) - 1) \o Digit(10 - (n % 10))

\* ConvertToString(value): oss << value.  A value is a string (streamed as it
\* is) or an int (streamed in decimal).
StrValue(s) == [kind |-> "string", str |-> s]
IntValue(n) == [kind |-> "int", num |-> n]
ConvertToString(value) ==
    IF value.kind = "int" THEN IntToString(value.num) ELSE value.str

\* Join(elements, delimiter)
RECURSIVE JoinFrom(_, _, _)
JoinFrom(elements, delimiter, i) ==
    IF i > Len(elements) THEN ""
    ELSE (IF i > 1 THEN delimiter ELSE "") \o elements[i]
         \o JoinFrom(elements, delimiter, i + 1)
Join(elements, delimiter) == JoinFrom(elements, delimiter, 1)

\* std::string::find(needle): the first position (from 0) at which needle
\* occurs in hay, npos when there is none.
Find(hay, needle) ==
    LET at == {p \in 0..(Len(hay) - Len(needle)) :
                   SubSeq(hay, p + 1, p + Len(needle)) = needle}
    IN  IF at = {} THEN npos ELSE Min(at)

\* std::string::replace(pos, len, str)
Replace(s, pos, len, str) ==
    SubSeq(s, 1, pos) \o str \o SubSeq(s, pos + len + 1, Len(s))

\* Faulty variant of HandleReservedKeyword: quotes every field that merely
\* contains a reserved keyword.
HandleReservedKeywordBySubstring(db, field) ==
    IF \E k \in reservedKeywords : Find(field, k) # npos
    THEN IF db = "MariaDB" THEN BackTick \o field \o BackTick
         ELSE DoubleQuote \o field \o DoubleQuote
    ELSE field

\* HandleReservedKeyword(field), for the dialect db
HandleReservedKeyword(db, field) ==
    IF field \in reservedKeywords
    THEN IF db = "MariaDB" THEN BackTick \o field \o BackTick
         ELSE DoubleQuote \o field \o DoubleQuote
    ELSE field

\* Faulty variant of FormatDateTime: single quotes in both dialects.
FormatDateTimeQuotedOnly(db, dateTime) == "'" \o dateTime \o "'"

\* FormatDateTime(dateTime), for the dialect db
FormatDateTime(db, dateTime) ==
    IF db = "MariaDB" THEN "'" \o dateTime \o "'"
    ELSE "TO_TIMESTAMP('" \o dateTime \o "', 'YYYY-MM-DD HH24:MI:SS')"

-----------------------------------------------------------------------------
(* Build, clause by clause. *)

\* Faulty variant of ApplyPlaceholder: replaces every occurrence of the
\* token, scanning on after each replaced one.
RECURSIVE ReplaceEvery(_, _, _)
ReplaceEvery(text, first, second) ==
    LET pos == Find(text, first)
    IN  IF pos = npos \/ first = "" THEN text
        ELSE SubSeq(text, 1, pos) \o second
             \o ReplaceEvery(SubSeq(text, pos + Len(first) + 1, Len(text)),
                             first, second)
ApplyPlaceholderEverywhere(whereClause, first, second) ==
    ReplaceEvery(whereClause, first, second)

\* Faulty variant of ApplyPlaceholder: replaces as many characters as the
\* value has, not as many as the token has.
ApplyPlaceholderValueLength(whereClause, first, second) ==
    LET pos == Find(whereClause, first)
    IN  IF pos # npos THEN Replace(whereClause, pos, Len(second), second)
        ELSE whereClause

\* One iteration of  for (const auto& pair : values)  on whereClause.
ApplyPlaceholder(whereClause, first, second) ==
    LET pos == Find(whereClause, first)
    IN  IF pos # npos THEN Replace(whereClause, pos, Len(first), second)
        ELSE whereClause

\* The loop over values, traversed in the order `order`, from its i-th entry.
RECURSIVE ApplyPlaceholders(_, _, _, _)
ApplyPlaceholders(whereClause, map, order, i) ==
    IF i > Len(order) THEN whereClause
    ELSE ApplyPlaceholders(
             ApplyPlaceholder(whereClause, order[i], map[order[i]]),
             map, order, i + 1)

HintPart ==
    IF dbType = "Oracle" /\ indexClause # ""
    THEN " /*+ INDEX(" \o tableName \o ", " \o indexClause \o ") */ "
    ELSE ""

ColumnsPart ==
    IF selectFields = <<>> THEN "*"
    ELSE (IF is_distinct THEN " DISTINCT  " ELSE "") \o Join(selectFields, ", ")

FromPart == " FROM " \o tableName

\* Faulty variant of ForceIndexPart: the dialect is not looked at.
ForceIndexPartAnyDialect ==
    IF indexClause # ""
    THEN " FORCE INDEX(" \o indexClause \o ") "
    ELSE ""

ForceIndexPart ==
    IF dbType = "MariaDB" /\ indexClause # ""
    THEN " FORCE INDEX(" \o indexClause \o ") "
    ELSE ""

RECURSIVE JoinsFrom(_)
JoinsFrom(i) ==
    IF i > Len(joins) THEN "" ELSE " " \o joins[i] \o JoinsFrom(i + 1)
JoinsPart == JoinsFrom(1)

WherePart ==
    IF whereConditions # <<>>
    THEN " WHERE " \o ApplyPlaceholders(Join(whereConditions, " AND "),
                                        values, valuesOrder, 1)
    ELSE ""

OrderByPart == IF orderBy # "" THEN " ORDER BY " \o orderBy ELSE ""

\* Faulty variant of PaginationPart: an offset after FETCH FIRST on Oracle,
\* and an offset of 0 emitted on MariaDB.
PaginationPartWithOffsetEverywhere ==
    IF limit >= 0
    THEN (IF dbType = "MariaDB" THEN " LIMIT " \o IntToString(limit)
          ELSE " FETCH FIRST " \o IntToString(limit) \o " ROWS ONLY")
         \o (IF offset >= 0 THEN " OFFSET " \o IntToString(offset) ELSE "")
    ELSE ""

PaginationPart ==
    IF dbType = "MariaDB"
    THEN IF limit >= 0
         THEN " LIMIT " \o IntToString(limit)
              \o (IF offset > 0 THEN " OFFSET " \o IntToString(offset) ELSE "")
         ELSE ""
    ELSE IF limit >= 0
         THEN " FETCH FIRST " \o IntToString(limit) \o " ROWS ONLY"
         ELSE ""

\* The string Build returns in the current state.
BuildString ==
    "SELECT " \o HintPart \o ColumnsPart \o FromPart \o ForceIndexPart
    \o JoinsPart \o WherePart \o OrderByPart \o PaginationPart

-----------------------------------------------------------------------------
(* The state after construction. *)

Init ==
    /\ dbType \in DatabaseType
    /\ selectFields = <<>>
    /\ tableName = ""
    /\ whereConditions = <<>>
    /\ joins = <<>>
    /\ orderBy = ""
    /\ indexClause = ""
    /\ is_distinct = FALSE
    /\ limit = DefaultLimit
    /\ offset = DefaultOffset
    /\ values = << >>
    /\ valuesOrder = <<>>
    /\ out = ""
    /\ buildsInRow = 0
    /\ calls = 0
    /\ selectArgs = <<>>
    /\ whereArgs = <<>>
    /\ lastArgs = [From |-> <<>>, OrderBy |-> <<>>, Index |-> <<>>,
                   Limit |-> <<>>, Offset |-> <<>>]
    /\ distinctCalls = 0

-----------------------------------------------------------------------------
(* The operations. *)

\* What every mutating call does to the observation variables: it returns
\* the builder, not a string.
Mutating ==
    /\ calls < MaxCalls
    /\ calls' = calls + 1
    /\ out' = ""
    /\ buildsInRow' = 0

Select(flds) ==
    /\ Mutating
    /\ selectFields' = selectFields
           \o [i \in 1..Len(flds) |-> HandleReservedKeyword(dbType, flds[i])]
    /\ selectArgs' = selectArgs \o flds
    /\ UNCHANGED <<dbType, tableName, whereConditions, joins, orderBy,
                   indexClause, is_distinct, limit, offset, values,
                   valuesOrder, whereArgs, lastArgs, distinctCalls>>

From(table) ==
    /\ Mutating
    /\ tableName' = table
    /\ lastArgs' = [lastArgs EXCEPT !.From = <<table>>]
    /\ UNCHANGED <<dbType, selectFields, whereConditions, joins, orderBy,
                   indexClause, is_distinct, limit, offset, values,
                   valuesOrder, selectArgs, whereArgs,
                   distinctCalls>>

\* Faulty variant of Distinct: toggles the flag.
DistinctToggling ==
    /\ Mutating
    /\ is_distinct' = ~is_distinct
    /\ distinctCalls' = IF distinctCalls < 2 THEN distinctCalls + 1 ELSE 2
    /\ UNCHANGED <<dbType, selectFields, tableName, whereConditions, joins,
                   orderBy, indexClause, limit, offset, values, valuesOrder,
                   selectArgs, whereArgs, lastArgs>>

Distinct ==
    /\ Mutating
    /\ is_distinct' = TRUE
    /\ distinctCalls' = IF distinctCalls < 2 THEN distinctCalls + 1 ELSE 2
    /\ UNCHANGED <<dbType, selectFields, tableName, whereConditions, joins,
                   orderBy, indexClause, limit, offset, values, valuesOrder,
                   selectArgs, whereArgs, lastArgs>>

\* The fragment Where pushes for one condition.
WhereFragment(db, condition, isDateTime) ==
    LET formattedValue == IF isDateTime
                          THEN FormatDateTime(db, condition[2])
                          ELSE condition[2]
    IN  HandleReservedKeyword(db, condition[1]) \o " = " \o formattedValue

\* Faulty variant of Where: the new fragments go before the stored ones.
WherePrepending(conditions, isDateTime) ==
    /\ Mutating
    /\ whereConditions' =
           [i \in 1..Len(conditions) |->
                WhereFragment(dbType, conditions[i], isDateTime)]
           \o whereConditions
    /\ whereArgs' = whereArgs
           \o [i \in 1..Len(conditions) |->
                   [column |-> conditions[i][1], value |-> conditions[i][2],
                    call |-> IF isDateTime THEN "WhereDateTime" ELSE "Where"]]
    /\ UNCHANGED <<dbType, selectFields, tableName, joins, orderBy,
                   indexClause, is_distinct, limit, offset, values,
                   valuesOrder, selectArgs, lastArgs, distinctCalls>>

Where(conditions, isDateTime) ==
    /\ Mutating
    /\ whereConditions' = whereConditions
           \o [i \in 1..Len(conditions) |->
                   WhereFragment(dbType, conditions[i], isDateTime)]
    /\ whereArgs' = whereArgs
           \o [i \in 1..Len(conditions) |->
                   [column |-> conditions[i][1], value |-> conditions[i][2],
                    call |-> IF isDateTime THEN "WhereDateTime" ELSE "Where"]]
    /\ UNCHANGED <<dbType, selectFields, tableName, joins, orderBy,
                   indexClause, is_distinct, limit, offset, values,
                   valuesOrder, selectArgs, lastArgs, distinctCalls>>

\* The fragment WhereWithPlaceholder pushes for one condition.
PlaceholderFragment(db, condition) ==
    HandleReservedKeyword(db, condition[1]) \o " = " \o condition[2]

WhereWithPlaceholder(conditions) ==
    /\ Mutating
    /\ whereConditions' = whereConditions
           \o [i \in 1..Len(conditions) |->
                   PlaceholderFragment(dbType, conditions[i])]
    /\ whereArgs' = whereArgs
           \o [i \in 1..Len(conditions) |->
                   [column |-> conditions[i][1], value |-> conditions[i][2],
                    call |-> "WhereWithPlaceholder"]]
    /\ UNCHANGED <<dbType, selectFields, tableName, joins, orderBy,
                   indexClause, is_distinct, limit, offset, values,
                   valuesOrder, selectArgs, lastArgs, distinctCalls>>

\* values[placeholder] = ConvertToString(value).  A key already present keeps
\* its place in the traversal; a new key may land anywhere, and the rehash it
\* can trigger may move every other key: the traversal order of an
\* unordered_map is unspecified.
SetValue(placeholder, value) ==
    /\ Mutating
    /\ values' = [k \in (DOMAIN values) \cup {placeholder} |->
                      IF k = placeholder THEN ConvertToString(value)
                      ELSE values[k]]
    /\ IF placeholder \in DOMAIN values
       THEN valuesOrder' = valuesOrder
       ELSE valuesOrder' \in TraversalOrders((DOMAIN values) \cup {placeholder})
    /\ UNCHANGED <<dbType, selectFields, tableName, whereConditions, joins,
                   orderBy, indexClause, is_distinct, limit, offset,
                   selectArgs, whereArgs, lastArgs, distinctCalls>>

InnerJoin(table, onCondition) ==
    /\ Mutating
    /\ joins' = Append(joins, "INNER JOIN " \o table \o " ON " \o onCondition)
    /\ UNCHANGED <<dbType, selectFields, tableName, whereConditions, orderBy,
                   indexClause, is_distinct, limit, offset, values,
                   valuesOrder, selectArgs, whereArgs, lastArgs,
                   distinctCalls>>

OrderBy(field, ascending) ==
    /\ Mutating
    /\ orderBy' = HandleReservedKeyword(dbType, field)
                  \o (IF ascending THEN " ASC" ELSE " DESC")
    /\ lastArgs' = [lastArgs EXCEPT !.OrderBy = <<field, ascending>>]
    /\ UNCHANGED <<dbType, selectFields, tableName, whereConditions, joins,
                   indexClause, is_distinct, limit, offset, values,
                   valuesOrder, selectArgs, whereArgs, distinctCalls>>

Index(indexName) ==
    /\ Mutating
    /\ indexClause' = indexName
    /\ lastArgs' = [lastArgs EXCEPT !.Index = <<indexName>>]
    /\ UNCHANGED <<dbType, selectFields, tableName, whereConditions, joins,
                   orderBy, is_distinct, limit, offset, values, valuesOrder,
                   selectArgs, whereArgs, distinctCalls>>

Limit(n) ==
    /\ Mutating
    /\ limit' = n
    /\ lastArgs' = [lastArgs EXCEPT !.Limit = <<n>>]
    /\ UNCHANGED <<dbType, selectFields, tableName, whereConditions, joins,
                   orderBy, indexClause, is_distinct, offset, values,
                   valuesOrder, selectArgs, whereArgs,
                   distinctCalls>>

Offset(n) ==
    /\ Mutating
    /\ offset' = n
    /\ lastArgs' = [lastArgs EXCEPT !.Offset = <<n>>]
    /\ UNCHANGED <<dbType, selectFields, tableName, whereConditions, joins,
                   orderBy, indexClause, is_distinct, limit, values,
                   valuesOrder, selectArgs, whereArgs,
                   distinctCalls>>

\* Faulty variant of Build: substitutes the placeholders in the stored
\* where-clauses themselves instead of in a local copy.
BuildSubstitutingInPlace ==
    /\ out' = BuildString
    /\ buildsInRow' = IF buildsInRow < 2 THEN buildsInRow + 1 ELSE 2
    /\ whereConditions' =
           IF whereConditions = <<>> THEN whereConditions
           ELSE <<ApplyPlaceholders(Join(whereConditions, " AND "),
                                    values, valuesOrder, 1)>>
    /\ UNCHANGED <<dbType, selectFields, tableName, joins, orderBy,
                   indexClause, is_distinct, limit, offset, values,
                   valuesOrder, history>>

\* Build() const: returns the rendered text and writes no member.
Build ==
    /\ out' = BuildString
    /\ buildsInRow' = IF buildsInRow < 2 THEN buildsInRow + 1 ELSE 2
    /\ UNCHANGED <<fields, history>>

-----------------------------------------------------------------------------
(* The arguments the calls are made with. *)

SelectInputs ==
    { <<>>,
      <<"id", "name">>,
      <<"id", "name", "DATE">>,
      <<"USER", "ORDER", "GROUP", "INDEX", "date", "ORDERS">> }

TableInputs == {"users", "t"}

\* Pairs of (conditions, isDateTime).
WhereInputs ==
    { << <<<<"status", "1">>>>, FALSE >>,
      << <<<<"GROUP", "g">>, <<"user", "u">>>>, FALSE >>,
      << <<<<"event_time", "2024-01-01 10:00:00">>>>, TRUE >>,
      << <<<<"DATE", "2024-01-01">>, <<"UPDATE_DATE", "d">>>>, TRUE >> }

PlaceholderInputs ==
    { <<<<"join_date", "?jd">>>>,
      <<<<"c", "?ab">>>>,
      <<<<"a", "?a">>, <<"GROUP", "?a">>>>,
      <<<<"join_date", "date">>>> }

SetValueInputs ==
    { <<"?jd", StrValue("SYSDATE")>>,
      <<"?a", IntValue(42)>>,
      <<"?a", StrValue("?ab")>>,
      <<"?ab", IntValue(-7)>>,
      <<"date", StrValue("SYSDATE")>> }

JoinInputs == { <<"orders", "users.id = orders.user_id">> }

\* Pairs of (field, ascending).
OrderByInputs ==
    { <<"name", TRUE>>, <<"name", FALSE>>, <<"DATE", FALSE>>,
      <<"ORDER", TRUE>>, <<"order", TRUE>>, <<"GROUPS", FALSE>> }

IndexInputs == {"", "idx_users_name"}

LimitInputs == {-1, 0, 10}

OffsetInputs == {-1, 0, 5}

Next ==
    \/ \E flds \in SelectInputs : Select(flds)
    \/ \E table \in TableInputs : From(table)
    \/ Distinct
    \/ \E w \in WhereInputs : Where(w[1], w[2])
    \/ \E conditions \in PlaceholderInputs : WhereWithPlaceholder(conditions)
    \/ \E sv \in SetValueInputs : SetValue(sv[1], sv[2])
    \/ \E j \in JoinInputs : InnerJoin(j[1], j[2])
    \/ \E o \in OrderByInputs : OrderBy(o[1], o[2])
    \/ \E indexName \in IndexInputs : Index(indexName)
    \/ \E n \in LimitInputs : Limit(n)
    \/ \E n \in OffsetInputs : Offset(n)
    \/ Build

-----------------------------------------------------------------------------
(* Properties. *)

\* The text Build emits before the pagination suffix.
BeforePagination ==
    "SELECT " \o HintPart \o ColumnsPart \o FromPart \o ForceIndexPart
    \o JoinsPart \o WherePart \o OrderByPart

\* The latest argument of an overwriting call, `dflt` if it was never made.
LastArg(call, dflt) ==
    IF lastArgs[call] = <<>> THEN dflt ELSE lastArgs[call][1]

\* C1: a step that returns a string from Build changes no field of the
\* builder, and when the previous call was a Build too (no mutating call in
\* between) it returns the same string as that one.
BuildIsPureAndRepeatable ==
    [][buildsInRow' > 0 =>
           /\ UNCHANGED fields
           /\ buildsInRow > 0 => out' = out]_vars

\* Build was called twice in a row on a builder whose where-clause holds a
\* placeholder that a SetValue entry replaces.
BuiltTwiceWitness ==
    /\ buildsInRow = 2
    /\ whereConditions # <<>>
    /\ \E k \in DOMAIN values : Find(Join(whereConditions, " AND "), k) # npos

\* The token the claim gives for an identifier: quoted exactly when it is one
\* of the five keywords, in the quote character of the dialect.
ClaimedToken(field) ==
    IF field \in {"DATE", "USER", "ORDER", "GROUP", "INDEX"}
    THEN IF dbType = "MariaDB" THEN BackTick \o field \o BackTick
         ELSE "\"" \o field \o "\""
    ELSE field

StartsWith(s, prefix) == SubSeq(s, 1, Len(prefix)) = prefix

\* C2: every identifier passed as a column to Select, Where,
\* WhereWithPlaceholder or OrderBy is stored quoted (back-ticks on MariaDB,
\* double quotes on Oracle) if and only if it is exactly DATE, USER, ORDER,
\* GROUP or INDEX, and unchanged otherwise.
ReservedKeywordsQuoted ==
    /\ Len(selectFields) = Len(selectArgs)
    /\ \A i \in DOMAIN selectArgs : selectFields[i] = ClaimedToken(selectArgs[i])
    /\ Len(whereConditions) = Len(whereArgs)
    /\ \A i \in DOMAIN whereArgs :
           StartsWith(whereConditions[i],
                      ClaimedToken(whereArgs[i].column) \o " = ")
    /\ lastArgs.OrderBy # <<>> =>
           orderBy = ClaimedToken(lastArgs.OrderBy[1])
                     \o (IF lastArgs.OrderBy[2] THEN " ASC" ELSE " DESC")

\* Keywords, a lower-case variant and a name that contains a keyword have
\* been passed to Select, a keyword to a where call and to OrderBy.
ReservedKeywordsWitness ==
    /\ \E i \in DOMAIN selectArgs : selectArgs[i] = "ORDERS"
    /\ \E i \in DOMAIN selectArgs : selectArgs[i] = "date"
    /\ \E i \in DOMAIN selectArgs : selectArgs[i] = "INDEX"
    /\ \E i \in DOMAIN whereArgs : whereArgs[i].column = "UPDATE_DATE"
    /\ \E i \in DOMAIN whereArgs : whereArgs[i].column = "DATE"
    /\ lastArgs.OrderBy # <<>> /\ lastArgs.OrderBy[1] = "ORDER"

\* The pagination suffix the claim gives for the latest Limit and Offset
\* arguments.
ClaimedPagination ==
    LET limitSet == lastArgs.Limit # <<>> /\ lastArgs.Limit[1] >= 0
        offsetSet == lastArgs.Offset # <<>> /\ lastArgs.Offset[1] > 0
    IN  IF dbType = "MariaDB"
        THEN (IF limitSet
              THEN " LIMIT " \o IntToString(lastArgs.Limit[1]) ELSE "")
             \o (IF limitSet /\ offsetSet
                 THEN " OFFSET " \o IntToString(lastArgs.Offset[1]) ELSE "")
        ELSE IF limitSet
             THEN " FETCH FIRST " \o IntToString(lastArgs.Limit[1])
                  \o " ROWS ONLY"
             ELSE ""

\* C3: Build ends with " LIMIT <limit>" on MariaDB iff the latest limit is
\* >= 0, followed by " OFFSET <offset>" iff also the latest offset is > 0;
\* with " FETCH FIRST <limit> ROWS ONLY" on Oracle iff the latest limit is
\* >= 0, and never with an offset there; with no pagination text when Limit
\* was never called or last called with a negative number.
PaginationSuffix ==
    buildsInRow > 0 =>
        /\ out = BeforePagination \o ClaimedPagination
        /\ dbType = "Oracle" => Find(out, " OFFSET ") = npos
        /\ (lastArgs.Limit = <<>> \/ lastArgs.Limit[1] < 0) =>
               /\ Find(out, " LIMIT ") = npos
               /\ Find(out, " OFFSET ") = npos
               /\ Find(out, " FETCH FIRST ") = npos

\* Build ran after three calls, among them Limit and Offset with values that
\* emit their clause.
PaginationWitness ==
    /\ buildsInRow > 0
    /\ calls = 3
    /\ lastArgs.Limit = <<10>>
    /\ lastArgs.Offset = <<5>>

\* The text Build emits after the table name and the MariaDB index clause.
AfterFrom == JoinsPart \o WherePart \o OrderByPart \o PaginationPart

\* C6: with a non-empty latest index name, Build on Oracle emits the hint
\* " /*+ INDEX(<table>, <index>) */ " right after "SELECT " and before the
\* columns, with the table name current at Build, and no FORCE INDEX; Build
\* on MariaDB emits " FORCE INDEX(<index>) " right after " FROM <table>" and
\* before any join, and no hint.  With no index name, or an empty one,
\* neither is emitted.
IndexHintPlacement ==
    buildsInRow > 0 =>
        LET index == LastArg("Index", "")
            table == LastArg("From", "")
        IN  /\ dbType = "Oracle" =>
                /\ out = "SELECT "
                         \o (IF index # ""
                             THEN " /*+ INDEX(" \o table \o ", " \o index
                                  \o ") */ "
                             ELSE "")
                         \o ColumnsPart \o " FROM " \o table \o AfterFrom
                /\ Find(out, "FORCE INDEX") = npos
            /\ dbType = "MariaDB" =>
                /\ out = "SELECT " \o ColumnsPart \o " FROM " \o table
                         \o (IF index # ""
                             THEN " FORCE INDEX(" \o index \o ") " ELSE "")
                         \o AfterFrom
                /\ Find(out, "/*+") = npos
            /\ index = "" =>
                /\ Find(out, "FORCE INDEX") = npos
                /\ Find(out, "/*+") = npos

\* Build ran with an index name, a table name and a join set.
IndexHintWitness ==
    /\ buildsInRow > 0
    /\ lastArgs.Index = <<"idx_users_name">>
    /\ lastArgs.From = <<"users">>
    /\ joins # <<>>

\* C7: Build emits " DISTINCT  " right before the column list iff Distinct
\* was called at least once and at least one column was selected; with no
\* column it emits "*" and no DISTINCT, whatever Distinct calls were made;
\* a second Distinct call changes nothing.
DistinctPlacement ==
    buildsInRow > 0 =>
        LET columns ==
                IF selectArgs = <<>> THEN "*"
                ELSE (IF distinctCalls >= 1 THEN " DISTINCT  " ELSE "")
                     \o Join(selectFields, ", ")
        IN  /\ out = "SELECT " \o HintPart \o columns \o FromPart
                     \o ForceIndexPart \o AfterFrom
            /\ ~(distinctCalls >= 1 /\ selectArgs # <<>>) =>
                   Find(out, "DISTINCT") = npos

\* Build ran after two Distinct calls and a Select of some column.
DistinctWitness ==
    /\ buildsInRow > 0
    /\ distinctCalls = 2
    /\ selectArgs # <<>>

\* C8: the fragment stored for a pair (column, value) is the escaped column,
\* " = ", and: for Where with isDateTime, the value in single quotes on
\* MariaDB and TO_TIMESTAMP('<value>', 'YYYY-MM-DD HH24:MI:SS') on Oracle;
\* for Where without it and for WhereWithPlaceholder, the value as given.
DateTimeWrapping ==
    /\ Len(whereConditions) = Len(whereArgs)
    /\ \A i \in DOMAIN whereArgs :
           LET v == whereArgs[i].value
           IN  whereConditions[i] =
                   HandleReservedKeyword(dbType, whereArgs[i].column) \o " = "
                   \o (IF whereArgs[i].call = "WhereDateTime"
                       THEN IF dbType = "MariaDB" THEN "'" \o v \o "'"
                            ELSE "TO_TIMESTAMP('" \o v
                                 \o "', 'YYYY-MM-DD HH24:MI:SS')"
                       ELSE v)

\* A Where call with isDateTime and several pairs, a Where call without it
\* and a WhereWithPlaceholder call have been made.
DateTimeWitness ==
    /\ \E i, j \in DOMAIN whereArgs :
           /\ i < j
           /\ whereArgs[i].call = "WhereDateTime"
           /\ whereArgs[j].call = "WhereDateTime"
    /\ \E i \in DOMAIN whereArgs : whereArgs[i].call = "Where"
    /\ \E i \in DOMAIN whereArgs : whereArgs[i].call = "WhereWithPlaceholder"

\* The first n stored where-clauses, each after the first preceded by " AND ".
RECURSIVE AndJoined(_)
AndJoined(n) ==
    IF n = 0 THEN ""
    ELSE IF n = 1 THEN whereConditions[1]
    ELSE AndJoined(n - 1) \o " AND " \o whereConditions[n]

\* The fragment a where call stores for the pair recorded as arg.
FragmentOf(arg) ==
    IF arg.call = "WhereWithPlaceholder"
    THEN PlaceholderFragment(dbType, <<arg.column, arg.value>>)
    ELSE WhereFragment(dbType, <<arg.column, arg.value>>,
                       arg.call = "WhereDateTime")

WhereListIsCallHistory ==
    /\ Len(whereConditions) = Len(whereArgs)
    /\ \A i \in DOMAIN whereArgs : whereConditions[i] = FragmentOf(whereArgs[i])
    /\ buildsInRow > 0 =>
           LET head == "SELECT " \o HintPart \o ColumnsPart \o FromPart
                       \o ForceIndexPart \o JoinsPart
               tail == OrderByPart \o PaginationPart
               joined == AndJoined(Len(whereConditions))
           IN  /\ whereArgs = <<>> =>
                   /\ out = head \o tail
                   /\ Find(out, "WHERE") = npos
               /\ whereArgs # <<>> =>
                   out = head \o " WHERE "
                         \o ApplyPlaceholders(joined, values, valuesOrder, 1)
                         \o tail
               /\ (whereArgs # <<>> /\ DOMAIN values = {}) =>
                   out = head \o " WHERE " \o joined \o tail

\* C9: the stored where-clause list is, in call order and argument order,
\* one fragment per pair passed to Where and WhereWithPlaceholder; no step
\* removes or reorders an earlier fragment; Build emits " WHERE " and the
\* fragments joined with " AND " in that order (then substituted), and no
\* WHERE text when the list is empty.
WhereClausesAccumulate ==
    /\ []WhereListIsCallHistory
    /\ [][/\ Len(whereConditions') >= Len(whereConditions)
          /\ SubSeq(whereConditions', 1, Len(whereConditions))
                 = whereConditions]_vars

\* Build ran, with no placeholder value set, after a Where and a
\* WhereWithPlaceholder call that stored at least three fragments.
WhereAccumulateWitness ==
    /\ buildsInRow > 0
    /\ DOMAIN values = {}
    /\ Len(whereConditions) >= 3
    /\ \E i, j \in DOMAIN whereArgs :
           /\ i < j
           /\ whereArgs[i].call = "WhereWithPlaceholder"
           /\ whereArgs[j].call = "Where"

\* The where text of the string Build returned, when it holds one: what
\* stands between " WHERE " and the ORDER BY and pagination clauses.
EmittedWhereText ==
    SubSeq(out,
           Len("SELECT " \o HintPart \o ColumnsPart \o FromPart
               \o ForceIndexPart \o JoinsPart \o " WHERE ") + 1,
           Len(out) - Len(OrderByPart \o PaginationPart))

\* The AND-joined where text once the first i entries of the traversal of
\* the placeholder map have been applied.
StageText(i) ==
    ApplyPlaceholders(AndJoined(Len(whereConditions)), values,
                      SubSeq(valuesOrder, 1, i), 1)

\* `after` is `before` with the first occurrence of token replaced by value
\* and every other character, later occurrences of token included, in place;
\* it is `before` when token does not occur.
FirstOccurrenceReplaced(before, after, token, value) ==
    LET n == Len(token)
        At(p) == SubSeq(before, p + 1, p + n) = token
        places == 0..(Len(before) - n)
    IN  IF \E p \in places : At(p)
        THEN \E p \in places :
                 /\ At(p)
                 /\ \A q \in 0..(p - 1) : ~At(q)
                 /\ after = SubSeq(before, 1, p) \o value
                            \o SubSeq(before, p + n + 1, Len(before))
        ELSE after = before

\* Each entry of the placeholder map is applied once, to the first occurrence
\* of its token in the text as the entries before it left it, and the result
\* of the last one is the where text Build returns.
EachEntryAppliedOnce ==
    (buildsInRow > 0 /\ whereConditions # <<>>) =>
        /\ valuesOrder \in TraversalOrders(DOMAIN values)
        /\ \A i \in 1..Len(valuesOrder) :
               FirstOccurrenceReplaced(StageText(i - 1), StageText(i),
                                       valuesOrder[i], values[valuesOrder[i]])
        /\ EmittedWhereText = StageText(Len(valuesOrder))

\* The builder holds the single where-clause of WhereWithPlaceholder([(c, t)])
\* and the single placeholder entry of SetValue(t, v), and Build has run.
SinglePlaceholderCase ==
    /\ buildsInRow > 0
    /\ Len(whereArgs) = 1
    /\ whereArgs[1].call = "WhereWithPlaceholder"
    /\ DOMAIN values = {whereArgs[1].value}

\* "c = v", c as WhereWithPlaceholder stored it.
SinglePlaceholderText ==
    HandleReservedKeyword(dbType, whereArgs[1].column) \o " = "
    \o values[whereArgs[1].value]

\* C4 as stated: each placeholder entry is applied once, to the first
\* occurrence of its token only, and WhereWithPlaceholder([(c, t)]) followed
\* by SetValue(t, v) alone renders the where text "c = v".
PlaceholderReplacedOnceAsStated ==
    /\ EachEntryAppliedOnce
    /\ SinglePlaceholderCase => EmittedWhereText = SinglePlaceholderText

\* C4, amended: each placeholder entry is applied once, to the first
\* occurrence of its token only, and WhereWithPlaceholder([(c, t)]) followed
\* by SetValue(t, v) alone renders the where text "c = v" provided t does not
\* occur in the stored fragment "c = t" before the place of the placeholder.
PlaceholderReplacedOnce ==
    /\ EachEntryAppliedOnce
    /\ (/\ SinglePlaceholderCase
        /\ Find(whereConditions[1], whereArgs[1].value)
               = Len(whereConditions[1]) - Len(whereArgs[1].value))
       => EmittedWhereText = SinglePlaceholderText

\* Build ran on two where-clauses that hold the same token, with a value set
\* for it.
RepeatedTokenWitness ==
    /\ buildsInRow > 0
    /\ \E i, j \in DOMAIN whereArgs :
           /\ i < j
           /\ whereArgs[i].value = whereArgs[j].value
           /\ whereArgs[i].call = "WhereWithPlaceholder"
           /\ whereArgs[j].call = "WhereWithPlaceholder"
           /\ whereArgs[i].value \in DOMAIN values

\* Build ran on the one clause and one entry of the example of C4.
SinglePlaceholderWitness ==
    /\ SinglePlaceholderCase
    /\ whereArgs[1].value = "?jd"

\* The position (from 0), in the AND-joined where text, of the value of the
\* i-th stored fragment.
ValuePosition(i) == Len(AndJoined(i)) - Len(whereArgs[i].value)

\* Follows the len characters at pos of text through the entries k, k+1, ...
\* of the traversal of the placeholder map: the position they end up at, or
\* npos as soon as a replacement overlaps them.
RECURSIVE TrackToken(_, _, _, _)
TrackToken(text, pos, len, k) ==
    IF k > Len(valuesOrder) THEN pos
    ELSE LET key == valuesOrder[k]
             p == Find(text, key)
             next == ApplyPlaceholder(text, key, values[key])
         IN  IF p = npos THEN TrackToken(text, pos, len, k + 1)
             ELSE IF p + Len(key) <= pos
                  THEN TrackToken(next, pos + Len(values[key]) - Len(key),
                                  len, k + 1)
             ELSE IF p >= pos + len THEN TrackToken(next, pos, len, k + 1)
             ELSE npos

\* The i-th stored fragment came from WhereWithPlaceholder and no SetValue
\* call was made with its token.
UnsetPlaceholder(i) ==
    /\ whereArgs[i].call = "WhereWithPlaceholder"
    /\ whereArgs[i].value \notin DOMAIN values

\* C5 as stated: a token stored by WhereWithPlaceholder, with no SetValue
\* call for it, occurs verbatim in the string Build returns, whatever other
\* SetValue calls and where-clauses there are.
UnsetPlaceholderKeptAsStated ==
    buildsInRow > 0 =>
        \A i \in DOMAIN whereArgs :
            UnsetPlaceholder(i) => Find(out, whereArgs[i].value) # npos

\* C5, amended: a token stored by WhereWithPlaceholder, with no SetValue
\* call for it, stands verbatim in the string Build returns provided no
\* replacement Build makes (of the first occurrence of a set token, in the
\* text as it is when that entry is applied) overlaps it.
UnsetPlaceholderKept ==
    buildsInRow > 0 =>
        \A i \in DOMAIN whereArgs :
            UnsetPlaceholder(i) =>
                LET token == whereArgs[i].value
                    pos == TrackToken(AndJoined(Len(whereConditions)),
                                      ValuePosition(i), Len(token), 1)
                IN  pos # npos =>
                        /\ pos + Len(token) <= Len(EmittedWhereText)
                        /\ SubSeq(EmittedWhereText, pos + 1, pos + Len(token))
                               = token

\* Build ran on a where text with an unset token that a replacement of
\* another token, made before it in the text, moved without touching it.
UnsetPlaceholderWitness ==
    /\ buildsInRow > 0
    /\ \E i \in DOMAIN whereArgs :
           /\ UnsetPlaceholder(i)
           /\ LET pos == TrackToken(AndJoined(Len(whereConditions)),
                                    ValuePosition(i),
                                    Len(whereArgs[i].value), 1)
              IN  pos # npos /\ pos # ValuePosition(i)

\* C10: the string Build returns is the one any traversal order of the
\* placeholder map gives: it depends on the entries of the map only.
PlaceholderOrderIrrelevant ==
    (buildsInRow > 0 /\ whereConditions # <<>>) =>
        \A order \in TraversalOrders(DOMAIN values) :
            EmittedWhereText =
                ApplyPlaceholders(AndJoined(Len(whereConditions)), values,
                                  order, 1)

Spec == Init /\ [][Next]_vars

=============================================================================
